---------------------------- MODULE Spec2Model ----------------------------
(***************************************************************************)
(* A model of slackinviter (src/main.go): the background loop that polls   *)
(* the team API and keeps the two gauges userCount / activeUserCount and   *)
(* the team record, the badge handler that reads the gauges, and the       *)
(* homepage handler that maintains the hit counters.                       *)
(*                                                                         *)
(* Strings that the code builds (strconv.Itoa, fmt.Sprintf) are sequences  *)
(* of one-character strings, so that len() of the code is Len() here.      *)
(***************************************************************************)
EXTENDS Integers, Sequences, FiniteSets, TLC

VARIABLES
    \* ---- process-wide state (main.go 25-46) ----
    userCount,        \* expvar.Int gauge
    activeUserCount,  \* expvar.Int gauge
    ourTeam,          \* *team, the team record
    hitsPerMinute,    \* expvar.Int gauge
    requests,         \* expvar.Int accumulator
    events,           \* counter: the rate window, the age of every live event
    \* ---- pollSlack / updateFromSlack goroutine ----
    pollPc,           \* position of the goroutine
    users,            \* local: users returned by api.GetUsers()
    usersErr,         \* local: err of api.GetUsers()
    uCount,           \* local
    aCount,           \* local
    st,               \* local: result of api.GetTeamInfo()
    infoErr,          \* local: err of api.GetTeamInfo()
    sleepFor,         \* the duration handed to time.Sleep, in minutes (0: none yet)
    cycle,            \* history of the cycle in progress or just finished
    tornSince,        \* history: a gauge was written since the badge request's
                      \* first read, or that read fell between lines 131 and 132
    \* ---- one badge request ----
    bPc,              \* position of the handler
    b,                \* its locals
    badgeOut,         \* what it wrote to the ResponseWriter
    \* ---- homepage requests ----
    hPc,              \* position of each handler
    hRate,            \* the value each got from counter.Rate()
    hAge,             \* history: ticks since each handler's counter.Incr
    hReadAge,         \* history: 1 once the clock ticked after each handler's counter.Rate
    hAlone,           \* history: no other homepage request overlapped this one
    homeOut,          \* what each wrote to the ResponseWriter
    recorded,         \* history: the age of every event ever recorded, live or expired
    \* ---- invite requests ----
    m,                \* the expvar.Int accumulators of handleInvite
    iPc,              \* position of each handler
    iv                \* the request and the locals of each handler

gaugeVars == <<userCount, activeUserCount, ourTeam>>
hitVars   == <<hitsPerMinute, requests, events, recorded>>
pollVars  == <<pollPc, users, usersErr, uCount, aCount, st, infoErr, sleepFor, cycle>>
badgeVars == <<bPc, b, badgeOut>>
homeVars  == <<hPc, hRate, hAge, hReadAge, hAlone, homeOut>>
inviteVars == <<m, iPc, iv>>
vars == <<gaugeVars, hitVars, pollVars, tornSince, badgeVars, homeVars, inviteVars>>

----------------------------------------------------------------------------
(* Bounds of the model *)

\* longest member list api.GetUsers() returns when only the poller runs
MaxMembers == 2
\* longest member list api.GetUsers() returns when handlers run beside it
MaxMembersConc == 1
\* largest gauge value the badge is rendered for
MaxCount == 110
\* number of concurrent homepage requests
NumHome == 2
\* length of the rate window in clock ticks (the window is one minute)
Window == 2
\* cap on the requests accumulator
MaxRequests == 3
\* number of concurrent invite requests
NumInvite == 2
\* cap on the POST requests to the invite handler
MaxInvites == 2
\* the same cap in the runs of the whole program
MaxInvitesAll == 1

----------------------------------------------------------------------------
(* Program constants *)

Minute == 1
TenMinutes == 10
padding == 8
middleSeparator == 4
charSpacing == 7
leftTextHeight == 14
rightTextHeight == 14
leftText == <<"s", "l", "a", "c", "k">>

----------------------------------------------------------------------------
(* The team API *)

MemberIDs == {"USLACKBOT", "U1"}
Presences == {"active", "away"}
Member == [ID : MemberIDs, IsBot : BOOLEAN, Deleted : BOOLEAN, Presence : Presences]

RECURSIVE SeqsUpTo(_, _)
SeqsUpTo(S, n) ==
    IF n = 0 THEN {<<>>}
    ELSE LET shorter == SeqsUpTo(S, n - 1)
         IN  shorter \cup {Append(s, x) : s \in {t \in shorter : Len(t) = n - 1}, x \in S}

\* the member lists api.GetUsers() returns when only the poller runs, and
\* those it returns when handlers run beside it: an active member, an away
\* member and an active bot
AllLists == SeqsUpTo(Member, MaxMembers)
ConcMember == {[ID |-> "U1", IsBot |-> FALSE, Deleted |-> FALSE, Presence |-> "active"],
               [ID |-> "U1", IsBot |-> FALSE, Deleted |-> FALSE, Presence |-> "away"],
               [ID |-> "U1", IsBot |-> TRUE, Deleted |-> FALSE, Presence |-> "active"]}
ConcLists == SeqsUpTo(ConcMember, MaxMembersConc)

NoTeam == [Name |-> "", Domain |-> "", Icon |-> ""]
TeamInfos == {[Name |-> "Gophers", Domain |-> "gophers", Icon |-> "a.png"],
              [Name |-> "Gophers", Domain |-> "gophers", Icon |-> "b.png"]}

\* the history of a cycle: which calls it made and how they ended
\* and whether any listing has succeeded since the process started
NoCycle == [listOk |-> FALSE, infoCalled |-> FALSE, infoOk |-> FALSE, ever |-> FALSE]

----------------------------------------------------------------------------
(* updateFromSlack, lines 122-130: the counting loop *)

\* a counting test that forgets the deleted flag
CountedDeleted(u) == u.ID # "USLACKBOT" /\ ~u.IsBot

Counted(u) == u.ID # "USLACKBOT" /\ ~u.IsBot /\ ~u.Deleted

\* a counting loop that tests the presence outside the eligibility test
RECURSIVE CountUsersAllActive(_)
CountUsersAllActive(us) ==
    IF us = <<>> THEN [uCount |-> 0, aCount |-> 0]
    ELSE LET rest == CountUsersAllActive(Tail(us))
             u == Head(us)
         IN  [uCount |-> IF u.ID # "USLACKBOT" /\ ~u.IsBot /\ ~u.Deleted
                         THEN rest.uCount + 1 ELSE rest.uCount,
              aCount |-> IF u.Presence = "active" THEN rest.aCount + 1 ELSE rest.aCount]

RECURSIVE CountUsers(_)
CountUsers(us) ==
    IF us = <<>> THEN [uCount |-> 0, aCount |-> 0]
    ELSE LET rest == CountUsers(Tail(us))
             u == Head(us)
         IN  IF Counted(u)
             THEN [uCount |-> rest.uCount + 1,
                   aCount |-> IF u.Presence = "active" THEN rest.aCount + 1 ELSE rest.aCount]
             ELSE rest

\* (*team).Update: the record is replaced by the one the API returned
Update(t, info) == info

----------------------------------------------------------------------------
(* The poller: pollSlack and updateFromSlack *)

\* line 117: users, err := api.GetUsers()
GetUsers(lists) ==
    /\ pollPc = "GetUsers"
    /\ \/ /\ usersErr' = TRUE
          /\ users' = <<>>
       \/ /\ usersErr' = FALSE
          /\ users' \in lists
    /\ cycle' = [NoCycle EXCEPT !.ever = cycle.ever]
    /\ pollPc' = "CheckUsers"
    /\ UNCHANGED <<uCount, aCount, st, infoErr, sleepFor>>
    /\ UNCHANGED <<gaugeVars, hitVars, tornSince, badgeVars, homeVars, inviteVars>>

\* a failed listing that falls through to the gauge update with zero counts
GetUsersFailedZeroes ==
    /\ pollPc = "CheckUsers"
    /\ usersErr
    /\ userCount' = 0
    /\ activeUserCount' = 0
    /\ sleepFor' = Minute
    /\ pollPc' = "Sleep"
    /\ users' = <<>>
    /\ usersErr' = FALSE
    /\ UNCHANGED <<uCount, aCount, st, infoErr, cycle, ourTeam>>
    /\ UNCHANGED <<hitVars, tornSince, badgeVars, homeVars, inviteVars>>

\* lines 118-121: the listing failed, return time.Minute
GetUsersFailed ==
    /\ pollPc = "CheckUsers"
    /\ usersErr
    /\ sleepFor' = Minute
    /\ pollPc' = "Sleep"
    /\ users' = <<>>
    /\ usersErr' = FALSE
    /\ UNCHANGED <<uCount, aCount, st, infoErr, cycle>>
    /\ UNCHANGED <<gaugeVars, hitVars, tornSince, badgeVars, homeVars, inviteVars>>

\* lines 122-130: count the users and the active users
CountLoop ==
    /\ pollPc = "CheckUsers"
    /\ ~usersErr
    /\ uCount' = CountUsers(users).uCount
    /\ aCount' = CountUsers(users).aCount
    /\ cycle' = [cycle EXCEPT !.listOk = TRUE, !.ever = TRUE]
    /\ pollPc' = "SetUserCount"
    /\ UNCHANGED <<users, usersErr, st, infoErr, sleepFor>>
    /\ UNCHANGED <<gaugeVars, hitVars, tornSince, badgeVars, homeVars, inviteVars>>

\* line 131: userCount.Set(uCount)
SetUserCount ==
    /\ pollPc = "SetUserCount"
    /\ userCount' = uCount
    /\ pollPc' = "SetActiveUserCount"
    /\ UNCHANGED <<activeUserCount, ourTeam>>
    /\ tornSince' = TRUE
    /\ UNCHANGED <<users, usersErr, uCount, aCount, st, infoErr, sleepFor, cycle>>
    /\ UNCHANGED <<hitVars, badgeVars, homeVars, inviteVars>>

\* a gauge update that leaves out the write of activeUserCount
SetActiveUserCountSkipped ==
    /\ pollPc = "SetActiveUserCount"
    /\ pollPc' = "GetTeamInfo"
    /\ UNCHANGED <<userCount, activeUserCount, ourTeam>>
    /\ tornSince' = TRUE
    /\ UNCHANGED <<users, usersErr, uCount, aCount, st, infoErr, sleepFor, cycle>>
    /\ UNCHANGED <<hitVars, badgeVars, homeVars, inviteVars>>

\* line 132: activeUserCount.Set(aCount)
SetActiveUserCount ==
    /\ pollPc = "SetActiveUserCount"
    /\ activeUserCount' = aCount
    /\ pollPc' = "GetTeamInfo"
    /\ UNCHANGED <<userCount, ourTeam>>
    /\ tornSince' = TRUE
    /\ UNCHANGED <<users, usersErr, uCount, aCount, st, infoErr, sleepFor, cycle>>
    /\ UNCHANGED <<hitVars, badgeVars, homeVars, inviteVars>>

\* line 134: st, err := api.GetTeamInfo()
GetTeamInfo ==
    /\ pollPc = "GetTeamInfo"
    /\ \/ /\ infoErr' = TRUE
          /\ st' = NoTeam
       \/ /\ infoErr' = FALSE
          /\ st' \in TeamInfos
    /\ cycle' = [cycle EXCEPT !.infoCalled = TRUE]
    /\ pollPc' = "CheckTeamInfo"
    /\ UNCHANGED <<users, usersErr, uCount, aCount, sleepFor>>
    /\ UNCHANGED <<gaugeVars, hitVars, tornSince, badgeVars, homeVars, inviteVars>>

\* a failed team info call that still stores the (empty) record it got
GetTeamInfoFailedStores ==
    /\ pollPc = "CheckTeamInfo"
    /\ infoErr
    /\ ourTeam' = st
    /\ sleepFor' = Minute
    /\ pollPc' = "Sleep"
    /\ users' = <<>>
    /\ uCount' = 0
    /\ aCount' = 0
    /\ st' = NoTeam
    /\ infoErr' = FALSE
    /\ UNCHANGED <<usersErr, cycle>>
    /\ UNCHANGED <<userCount, activeUserCount>>
    /\ UNCHANGED <<hitVars, tornSince, badgeVars, homeVars, inviteVars>>

\* lines 135-138: the team info call failed, return time.Minute
GetTeamInfoFailed ==
    /\ pollPc = "CheckTeamInfo"
    /\ infoErr
    /\ sleepFor' = Minute
    /\ pollPc' = "Sleep"
    /\ users' = <<>>
    /\ uCount' = 0
    /\ aCount' = 0
    /\ st' = NoTeam
    /\ infoErr' = FALSE
    /\ UNCHANGED <<usersErr, cycle>>
    /\ UNCHANGED <<gaugeVars, hitVars, tornSince, badgeVars, homeVars, inviteVars>>

\* a successful cycle that returns the short interval
UpdateTeamShort ==
    /\ pollPc = "CheckTeamInfo"
    /\ ~infoErr
    /\ ourTeam' = st
    /\ sleepFor' = Minute
    /\ cycle' = [cycle EXCEPT !.infoOk = TRUE]
    /\ pollPc' = "Sleep"
    /\ users' = <<>>
    /\ uCount' = 0
    /\ aCount' = 0
    /\ st' = NoTeam
    /\ UNCHANGED <<usersErr, infoErr>>
    /\ UNCHANGED <<userCount, activeUserCount>>
    /\ UNCHANGED <<hitVars, tornSince, badgeVars, homeVars, inviteVars>>

\* lines 139-140: ourTeam.Update(st); return 10 * time.Minute
UpdateTeam ==
    /\ pollPc = "CheckTeamInfo"
    /\ ~infoErr
    /\ ourTeam' = Update(ourTeam, st)
    /\ sleepFor' = TenMinutes
    /\ cycle' = [cycle EXCEPT !.infoOk = TRUE]
    /\ pollPc' = "Sleep"
    /\ users' = <<>>
    /\ uCount' = 0
    /\ aCount' = 0
    /\ st' = NoTeam
    /\ UNCHANGED <<usersErr, infoErr>>
    /\ UNCHANGED <<userCount, activeUserCount>>
    /\ UNCHANGED <<hitVars, tornSince, badgeVars, homeVars, inviteVars>>

\* a poller that runs updateFromSlack once and returns after the sleep
pollSlackOnce ==
    /\ pollPc = "Sleep"
    /\ pollPc' = "Returned"
    /\ UNCHANGED <<users, usersErr, uCount, aCount, st, infoErr, sleepFor, cycle>>
    /\ UNCHANGED <<gaugeVars, hitVars, tornSince, badgeVars, homeVars, inviteVars>>

\* line 146: time.Sleep returns and the loop calls updateFromSlack again
pollSlack ==
    /\ pollPc = "Sleep"
    /\ pollPc' = "GetUsers"
    /\ UNCHANGED <<users, usersErr, uCount, aCount, st, infoErr, sleepFor, cycle>>
    /\ UNCHANGED <<gaugeVars, hitVars, tornSince, badgeVars, homeVars, inviteVars>>

updateFromSlack(lists) ==
    \/ GetUsers(lists)
    \/ GetUsersFailed
    \/ CountLoop
    \/ SetUserCount
    \/ SetActiveUserCount
    \/ GetTeamInfo
    \/ GetTeamInfoFailed
    \/ UpdateTeam

----------------------------------------------------------------------------
(* strconv.Itoa and expvar.Int.String: the decimal digits of an integer *)

Digit(d) == <<"0", "1", "2", "3", "4", "5", "6", "7", "8", "9">>[d + 1]

RECURSIVE Digits(_)
Digits(n) == IF n < 10 THEN <<Digit(n)>> ELSE Append(Digits(n \div 10), Digit(n % 10))

Itoa(n) == IF n < 0 THEN <<"-">> \o Digits(0 - n) ELSE Digits(n)

----------------------------------------------------------------------------
(* The badge handler, lines 151-227 *)

NoLocals == [a158 |-> 0, u158 |-> 0, u162 |-> 0, u163 |-> 0, a168 |-> 0,
             rightText |-> <<>>, noActiveText |-> <<>>,
             leftWidth |-> 0, rightWidth |-> 0, totalWidth |-> 0,
             leftTextWidth |-> 0, rightTextWidth |-> 0, UserCount |-> <<>>]

\* line 158: fmt.Sprintf("%v/%v", ...)
Sprintf158(active, total) == active \o <<"/">> \o total

\* line 162's test written with >= in place of >
HasUsersOrNone(n) == n >= 0

\* lines 162-166: the label shown when nobody is active; this is line 162's test
HasUsers(n) == n > 0

\* line 168: the test that replaces the label by noActiveText
NoneActive(n) == n = 0

\* lines 172-174
LeftWidth == padding + (charSpacing * Len(leftText)) + middleSeparator
\* a right width that leaves out the padding
RightWidthUnpadded(text) == middleSeparator + (charSpacing * Len(text))
RightWidth(text) == middleSeparator + (charSpacing * Len(text)) + padding
TotalWidth(text) == LeftWidth + RightWidth(text)
\* lines 175 and 177: Go's integer division of non-negative ints
LeftTextWidth == LeftWidth \div 2
\* the right anchor as half of the sum of the two widths
RightTextWidthOfSum(text) == (LeftWidth + RightWidth(text)) \div 2
RightTextWidth(text) == LeftWidth + RightWidth(text) \div 2

\* a badge handler that counts its requests in the requests accumulator
badgeRequestCounts ==
    /\ bPc = "idle"
    /\ bPc' = "L158a"
    /\ b' = NoLocals
    /\ badgeOut' = <<>>
    /\ requests' = requests + 1
    /\ UNCHANGED <<hitsPerMinute, events, recorded>>
    /\ UNCHANGED <<gaugeVars, pollVars, tornSince, homeVars, inviteVars>>

\* a GET /badge.svg arrives
badgeRequest ==
    /\ bPc = "idle"
    /\ bPc' = "L158a"
    /\ b' = NoLocals
    /\ badgeOut' = <<>>
    /\ UNCHANGED <<gaugeVars, hitVars, pollVars, tornSince, homeVars, inviteVars>>

\* line 158, first argument: activeUserCount.Value()
badge158a ==
    /\ bPc = "L158a"
    /\ b' = [b EXCEPT !.a158 = activeUserCount]
    /\ tornSince' = (pollPc = "SetActiveUserCount")
    /\ bPc' = "L158u"
    /\ UNCHANGED <<gaugeVars, hitVars, pollVars, badgeOut, homeVars, inviteVars>>

\* line 158, second argument: userCount.Value(), and the Sprintf
badge158u ==
    /\ bPc = "L158u"
    /\ b' = [b EXCEPT !.u158 = userCount,
                      !.rightText = Sprintf158(Itoa(b.a158), Itoa(userCount))]
    /\ bPc' = "L162"
    /\ UNCHANGED <<gaugeVars, hitVars, pollVars, tornSince, badgeOut, homeVars, inviteVars>>

\* a badge without the placeholder: noActiveText is always the user count
badge162NoPlaceholder ==
    /\ bPc = "L162"
    /\ b' = [b EXCEPT !.u162 = userCount]
    /\ bPc' = "L163"
    /\ UNCHANGED <<gaugeVars, hitVars, pollVars, tornSince, badgeOut, homeVars, inviteVars>>

\* lines 162, 164-166: if userCount.Value() > 0 ... else noActiveText = "-"
badge162 ==
    /\ bPc = "L162"
    /\ IF HasUsers(userCount)
       THEN /\ b' = [b EXCEPT !.u162 = userCount]
            /\ bPc' = "L163"
       ELSE /\ b' = [b EXCEPT !.u162 = userCount, !.noActiveText = <<"-">>]
            /\ bPc' = "L168"
    /\ UNCHANGED <<gaugeVars, hitVars, pollVars, tornSince, badgeOut, homeVars, inviteVars>>

\* line 163: noActiveText = Sprintf("%v", Itoa(userCount.Value()))
badge163 ==
    /\ bPc = "L163"
    /\ b' = [b EXCEPT !.u163 = userCount, !.noActiveText = Itoa(userCount)]
    /\ bPc' = "L168"
    /\ UNCHANGED <<gaugeVars, hitVars, pollVars, tornSince, badgeOut, homeVars, inviteVars>>

\* lines 168-180: if activeUserCount.Value() == 0 { rightText = noActiveText },
\* then the layout
badge168 ==
    /\ bPc = "L168"
    /\ LET text == IF NoneActive(activeUserCount) THEN b.noActiveText ELSE b.rightText
       IN  b' = [b EXCEPT !.a168 = activeUserCount,
                          !.rightText = text,
                          !.leftWidth = LeftWidth,
                          !.rightWidth = RightWidth(text),
                          !.totalWidth = TotalWidth(text),
                          !.leftTextWidth = LeftTextWidth,
                          !.rightTextWidth = RightTextWidth(text)]
    /\ bPc' = "L215"
    /\ UNCHANGED <<gaugeVars, hitVars, pollVars, tornSince, badgeOut, homeVars, inviteVars>>

\* line 215: userCount.String()
badge215 ==
    /\ bPc = "L215"
    /\ b' = [b EXCEPT !.UserCount = Itoa(userCount)]
    /\ bPc' = "L216"
    /\ UNCHANGED <<gaugeVars, hitVars, pollVars, tornSince, badgeOut, homeVars, inviteVars>>

\* lines 216-226: activeUserCount.String(), badgeTemplate.Execute and the response
badge216 ==
    /\ bPc = "L216"
    /\ \/ badgeOut' = [status |-> 500]
       \/ badgeOut' = [status |-> 200,
                       TotalWidth |-> Itoa(b.totalWidth),
                       LeftWidth |-> Itoa(b.leftWidth),
                       RightWidth |-> Itoa(b.rightWidth),
                       MiddleSeparator |-> Itoa(middleSeparator),
                       LeftTextWidth |-> Itoa(b.leftTextWidth),
                       LeftTextHeight |-> Itoa(leftTextHeight),
                       LeftTextHeightPlusOne |-> Itoa(leftTextHeight + 1),
                       RightTextWidth |-> Itoa(b.rightTextWidth),
                       RightTextHeight |-> Itoa(rightTextHeight),
                       RightTextHeightPlusOne |-> Itoa(rightTextHeight + 1),
                       RightText |-> b.rightText,
                       LeftText |-> leftText,
                       UserCount |-> b.UserCount,
                       ActiveCount |-> Itoa(activeUserCount)]
    /\ bPc' = "done"
    /\ UNCHANGED <<gaugeVars, hitVars, pollVars, tornSince, b, homeVars, inviteVars>>

\* the handler returns
badgeReturn ==
    /\ bPc = "done"
    /\ bPc' = "idle"
    /\ b' = NoLocals
    /\ badgeOut' = <<>>
    /\ UNCHANGED <<gaugeVars, hitVars, pollVars, tornSince, homeVars, inviteVars>>

badge ==
    \/ badgeRequest
    \/ badge158a
    \/ badge158u
    \/ badge162
    \/ badge163
    \/ badge168
    \/ badge215
    \/ badge216
    \/ badgeReturn

----------------------------------------------------------------------------
(* The rate window (ratecounter.RateCounter with a window of one minute):   *)
(* the ages, in clock ticks, of the events that have not expired            *)

\* counter.Incr(1)
Incr(w) == Append(w, 0)

\* counter.Rate(): the events within the trailing window
Rate(w) == Cardinality({i \in 1..Len(w) : w[i] < Window})

RECURSIVE Aged(_)
Aged(w) ==
    IF w = <<>> THEN <<>>
    ELSE IF Head(w) + 1 < Window THEN <<Head(w) + 1>> \o Aged(Tail(w))
         ELSE Aged(Tail(w))

InFlight(p) == hPc[p] # "idle"
Started == requests + Cardinality({p \in 1..NumHome : hPc[p] \in {"L231", "L232r", "L232s", "L233"}})
Capped(n) == IF n < Window THEN n + 1 ELSE n

\* the clock advances by one tick
Tick ==
    /\ events' = Aged(events)
    /\ hAge' = [p \in 1..NumHome |-> IF hPc[p] \in {"idle", "L231"} THEN hAge[p] ELSE Capped(hAge[p])]
    /\ hReadAge' = [p \in 1..NumHome |->
                      IF hPc[p] \in {"idle", "L231", "L232r"} THEN hReadAge[p] ELSE 1]
    /\ recorded' = [i \in DOMAIN recorded |-> Capped(recorded[i])]
    /\ UNCHANGED <<hitsPerMinute, requests, hPc, hRate, hAlone, homeOut>>
    /\ UNCHANGED <<gaugeVars, pollVars, tornSince, badgeVars, inviteVars>>

----------------------------------------------------------------------------
(* The homepage handler, lines 230-258 *)

\* a GET / arrives
homepageRequest(p) ==
    /\ hPc[p] = "idle"
    /\ Started < MaxRequests
    /\ hPc' = [hPc EXCEPT ![p] = "L231"]
    /\ hAlone' = [q \in 1..NumHome |-> IF q = p THEN \A r \in 1..NumHome : ~InFlight(r) ELSE FALSE]
    /\ hRate' = [hRate EXCEPT ![p] = 0]
    /\ hAge' = [hAge EXCEPT ![p] = 0]
    /\ hReadAge' = [hReadAge EXCEPT ![p] = 0]
    /\ homeOut' = [homeOut EXCEPT ![p] = <<>>]
    /\ UNCHANGED <<gaugeVars, hitVars, pollVars, tornSince, badgeVars, inviteVars>>

\* counter.Incr(2) in place of counter.Incr(1)
homepage231Twice(p) ==
    /\ hPc[p] = "L231"
    /\ events' = Incr(Incr(events))
    /\ recorded' = Append(recorded, 0)
    /\ hPc' = [hPc EXCEPT ![p] = "L232r"]
    /\ UNCHANGED <<hitsPerMinute, requests, hRate, hAge, hReadAge, hAlone, homeOut>>
    /\ UNCHANGED <<gaugeVars, pollVars, tornSince, badgeVars, inviteVars>>

\* line 231: counter.Incr(1)
homepage231(p) ==
    /\ hPc[p] = "L231"
    /\ events' = Incr(events)
    /\ recorded' = Append(recorded, 0)
    /\ hPc' = [hPc EXCEPT ![p] = "L232r"]
    /\ UNCHANGED <<hitsPerMinute, requests, hRate, hAge, hReadAge, hAlone, homeOut>>
    /\ UNCHANGED <<gaugeVars, pollVars, tornSince, badgeVars, inviteVars>>

\* a homepage that reads the rate before it records its own event
homepage232rEarly(p) ==
    /\ hPc[p] = "L232r"
    /\ hRate' = [hRate EXCEPT ![p] = Rate(SubSeq(events, 1, Len(events) - 1))]
    /\ hPc' = [hPc EXCEPT ![p] = "L232s"]
    /\ UNCHANGED <<hAge, hReadAge, hAlone, homeOut>>
    /\ UNCHANGED <<gaugeVars, hitVars, pollVars, tornSince, badgeVars, inviteVars>>

\* line 232, the argument: counter.Rate()
homepage232r(p) ==
    /\ hPc[p] = "L232r"
    /\ hRate' = [hRate EXCEPT ![p] = Rate(events)]
    /\ hPc' = [hPc EXCEPT ![p] = "L232s"]
    /\ UNCHANGED <<hAge, hReadAge, hAlone, homeOut>>
    /\ UNCHANGED <<gaugeVars, hitVars, pollVars, tornSince, badgeVars, inviteVars>>

\* a homepage that adds the rate to the gauge instead of setting it
homepage232sAdds(p) ==
    /\ hPc[p] = "L232s"
    /\ hitsPerMinute' = hitsPerMinute + hRate[p]
    /\ hPc' = [hPc EXCEPT ![p] = "L233"]
    /\ UNCHANGED <<requests, events, recorded, hRate, hAge, hReadAge, hAlone, homeOut>>
    /\ UNCHANGED <<gaugeVars, pollVars, tornSince, badgeVars, inviteVars>>

\* line 232, the call: hitsPerMinute.Set(...)
homepage232s(p) ==
    /\ hPc[p] = "L232s"
    /\ hitsPerMinute' = hRate[p]
    /\ hPc' = [hPc EXCEPT ![p] = "L233"]
    /\ UNCHANGED <<requests, events, recorded, hRate, hAge, hReadAge, hAlone, homeOut>>
    /\ UNCHANGED <<gaugeVars, pollVars, tornSince, badgeVars, inviteVars>>

\* line 233: requests.Add(1)
\* requests.Set(1) in place of requests.Add(1)
homepage233Sets(p) ==
    /\ hPc[p] = "L233"
    /\ requests' = 1
    /\ hPc' = [hPc EXCEPT ![p] = "L245"]
    /\ UNCHANGED <<hitsPerMinute, events, recorded, hRate, hAge, hReadAge, hAlone, homeOut>>
    /\ UNCHANGED <<gaugeVars, pollVars, tornSince, badgeVars, inviteVars>>

homepage233(p) ==
    /\ hPc[p] = "L233"
    /\ requests' = requests + 1
    /\ hPc' = [hPc EXCEPT ![p] = "L245"]
    /\ UNCHANGED <<hitsPerMinute, events, recorded, hRate, hAge, hReadAge, hAlone, homeOut>>
    /\ UNCHANGED <<gaugeVars, pollVars, tornSince, badgeVars, inviteVars>>

\* lines 235-257: indexTemplate.Execute over the gauges and the team record,
\* and the response
homepage245(p) ==
    /\ hPc[p] = "L245"
    /\ \/ homeOut' = [homeOut EXCEPT ![p] = [status |-> 500]]
       \/ homeOut' = [homeOut EXCEPT ![p] = [status |-> 200,
                                              UserCount |-> Itoa(userCount),
                                              ActiveCount |-> Itoa(activeUserCount),
                                              Team |-> ourTeam]]
    /\ hPc' = [hPc EXCEPT ![p] = "done"]
    /\ UNCHANGED <<hRate, hAge, hReadAge, hAlone>>
    /\ UNCHANGED <<gaugeVars, hitVars, pollVars, tornSince, badgeVars, inviteVars>>

\* the handler returns
homepageReturn(p) ==
    /\ hPc[p] = "done"
    /\ hPc' = [hPc EXCEPT ![p] = "idle"]
    /\ hRate' = [hRate EXCEPT ![p] = 0]
    /\ hAge' = [hAge EXCEPT ![p] = 0]
    /\ hReadAge' = [hReadAge EXCEPT ![p] = 0]
    /\ homeOut' = [homeOut EXCEPT ![p] = <<>>]
    /\ UNCHANGED hAlone
    /\ UNCHANGED <<gaugeVars, hitVars, pollVars, tornSince, badgeVars, inviteVars>>

homepage(p) ==
    \/ homepageRequest(p)
    \/ homepage231(p)
    \/ homepage232r(p)
    \/ homepage232s(p)
    \/ homepage233(p)
    \/ homepage245(p)
    \/ homepageReturn(p)

----------------------------------------------------------------------------
(* The invite handler, lines 261-319 *)

\* the accumulators handleInvite adds to (lines 35-43)
Counters == {"inviteErrors", "missingFirstName", "missingLastName", "missingEmail",
             "missingCoC", "successfulCaptcha", "failedCaptcha", "invalidCaptcha",
             "successfulInvites"}

\* a request: its method, whether r.RemoteAddr splits into host and port, and
\* the form values
InviteRequests == [Method : {"GET", "POST"}, AddrOk : BOOLEAN,
                   email : {"", "a@b.c"}, fname : {"", "Ann"}, lname : {"", "Lee"},
                   coc : {"", "1"}]

\* the requests of the runs where the invite handler runs beside the others:
\* the address splits and the three names are given
ConcRequests ==
    {req \in InviteRequests :
        req.AddrOk /\ req.email # "" /\ req.fname # "" /\ req.lname # ""}

\* the locals of a handler: the request, the results of the external calls,
\* and as history the external calls made, the accumulators added to and the
\* status of the response
NoInvite == [req |-> [Method |-> "GET", AddrOk |-> FALSE, email |-> "", fname |-> "",
                      lname |-> "", coc |-> ""],
             valid |-> FALSE, verifyErr |-> FALSE, inviteErr |-> FALSE,
             calls |-> <<>>, added |-> <<>>, status |-> 0]

\* expvar.Int.Add(1)
Add(c) == [m EXCEPT ![c] = @ + 1]

\* the POST requests that have arrived
Posted ==
    m["failedCaptcha"] + m["invalidCaptcha"] + m["successfulCaptcha"]
      + Cardinality({i \in 1..NumInvite :
                       iPc[i] \in {"L262", "L274", "L275"} /\ iv[i].req.Method = "POST"})

\* the checks with the first name tested before the email
MissingFieldNameFirst(req) ==
    IF req.fname = "" THEN "missingFirstName"
    ELSE IF req.email = "" THEN "missingEmail"
    ELSE IF req.lname = "" THEN "missingLastName"
    ELSE IF req.coc # "1" THEN "missingCoC"
    ELSE ""

\* lines 291-310: the accumulator of the first check that fails, "" if none
MissingField(req) ==
    IF req.email = "" THEN "missingEmail"
    ELSE IF req.fname = "" THEN "missingFirstName"
    ELSE IF req.lname = "" THEN "missingLastName"
    ELSE IF req.coc # "1" THEN "missingCoC"
    ELSE ""

\* a request to /invite/ arrives
inviteRequest(i, reqs) ==
    /\ iPc[i] = "idle"
    /\ \E req \in reqs :
          /\ req.Method = "POST" => Posted < MaxInvites
          /\ iv' = [iv EXCEPT ![i] = [NoInvite EXCEPT !.req = req]]
    /\ iPc' = [iPc EXCEPT ![i] = "L262"]
    /\ UNCHANGED m
    /\ UNCHANGED <<gaugeVars, hitVars, pollVars, tornSince, badgeVars, homeVars>>

\* lines 262-272: the method test and net.SplitHostPort
invite262(i) ==
    /\ iPc[i] = "L262"
    /\ IF iv[i].req.Method # "POST"
       THEN /\ iv' = [iv EXCEPT ![i].status = 404]
            /\ iPc' = [iPc EXCEPT ![i] = "done"]
            /\ UNCHANGED m
       ELSE IF ~iv[i].req.AddrOk
       THEN /\ m' = Add("failedCaptcha")
            /\ iv' = [iv EXCEPT ![i].status = 500,
                                ![i].added = Append(@, "failedCaptcha")]
            /\ iPc' = [iPc EXCEPT ![i] = "done"]
       ELSE /\ iPc' = [iPc EXCEPT ![i] = "L274"]
            /\ UNCHANGED <<m, iv>>
    /\ UNCHANGED <<gaugeVars, hitVars, pollVars, tornSince, badgeVars, homeVars>>

\* line 274: valid, err := captcha.Verify(captchaResponse, remoteIP)
invite274(i) ==
    /\ iPc[i] = "L274"
    /\ \E valid \in BOOLEAN, err \in BOOLEAN :
          /\ iv' = [iv EXCEPT ![i].valid = valid, ![i].verifyErr = err,
                              ![i].calls = Append(@, "Verify")]
    /\ iPc' = [iPc EXCEPT ![i] = "L275"]
    /\ UNCHANGED m
    /\ UNCHANGED <<gaugeVars, hitVars, pollVars, tornSince, badgeVars, homeVars>>

\* lines 275-286: the outcome of the verification
invite275(i) ==
    /\ iPc[i] = "L275"
    /\ IF iv[i].verifyErr
       THEN /\ m' = Add("failedCaptcha")
            /\ iv' = [iv EXCEPT ![i].status = 412,
                                ![i].added = Append(@, "failedCaptcha")]
            /\ iPc' = [iPc EXCEPT ![i] = "done"]
       ELSE IF ~iv[i].valid
       THEN /\ m' = Add("invalidCaptcha")
            /\ iv' = [iv EXCEPT ![i].status = 500,
                                ![i].added = Append(@, "invalidCaptcha")]
            /\ iPc' = [iPc EXCEPT ![i] = "done"]
       ELSE /\ m' = Add("successfulCaptcha")
            /\ iv' = [iv EXCEPT ![i].added = Append(@, "successfulCaptcha")]
            /\ iPc' = [iPc EXCEPT ![i] = "L291"]
    /\ UNCHANGED <<gaugeVars, hitVars, pollVars, tornSince, badgeVars, homeVars>>

\* the four checks with the return after the first one missing
invite291NoReturn(i) ==
    /\ iPc[i] = "L291"
    /\ IF MissingField(iv[i].req) # ""
       THEN /\ m' = Add(MissingField(iv[i].req))
            /\ iv' = [iv EXCEPT ![i].status = 412,
                                ![i].added = Append(@, MissingField(iv[i].req))]
            /\ iPc' = [iPc EXCEPT ![i] = "L311"]
       ELSE /\ iPc' = [iPc EXCEPT ![i] = "L311"]
            /\ UNCHANGED <<m, iv>>
    /\ UNCHANGED <<gaugeVars, hitVars, pollVars, tornSince, badgeVars, homeVars>>

\* lines 287-310: the form values and the four checks
invite291(i) ==
    /\ iPc[i] = "L291"
    /\ IF MissingField(iv[i].req) # ""
       THEN /\ m' = Add(MissingField(iv[i].req))
            /\ iv' = [iv EXCEPT ![i].status = 412,
                                ![i].added = Append(@, MissingField(iv[i].req))]
            /\ iPc' = [iPc EXCEPT ![i] = "done"]
       ELSE /\ iPc' = [iPc EXCEPT ![i] = "L311"]
            /\ UNCHANGED <<m, iv>>
    /\ UNCHANGED <<gaugeVars, hitVars, pollVars, tornSince, badgeVars, homeVars>>

\* line 311: err = api.InviteToTeam("Gophers", fname, lname, email)
invite311(i) ==
    /\ iPc[i] = "L311"
    /\ \E err \in BOOLEAN :
          iv' = [iv EXCEPT ![i].inviteErr = err, ![i].calls = Append(@, "InviteToTeam")]
    /\ iPc' = [iPc EXCEPT ![i] = "L312"]
    /\ UNCHANGED m
    /\ UNCHANGED <<gaugeVars, hitVars, pollVars, tornSince, badgeVars, homeVars>>

\* lines 312-318: the outcome of the invitation
invite312(i) ==
    /\ iPc[i] = "L312"
    /\ IF iv[i].inviteErr
       THEN /\ m' = Add("inviteErrors")
            /\ iv' = [iv EXCEPT ![i].status = 500,
                                ![i].added = Append(@, "inviteErrors")]
       ELSE /\ m' = Add("successfulInvites")
            /\ iv' = [iv EXCEPT ![i].status = 200,
                                ![i].added = Append(@, "successfulInvites")]
    /\ iPc' = [iPc EXCEPT ![i] = "done"]
    /\ UNCHANGED <<gaugeVars, hitVars, pollVars, tornSince, badgeVars, homeVars>>

\* the handler returns
inviteReturn(i) ==
    /\ iPc[i] = "done"
    /\ iPc' = [iPc EXCEPT ![i] = "idle"]
    /\ iv' = [iv EXCEPT ![i] = NoInvite]
    /\ UNCHANGED m
    /\ UNCHANGED <<gaugeVars, hitVars, pollVars, tornSince, badgeVars, homeVars>>

handleInviteRun(i) ==
    \/ invite262(i)
    \/ invite274(i)
    \/ invite275(i)
    \/ invite291(i)
    \/ invite311(i)
    \/ invite312(i)
    \/ inviteReturn(i)

handleInvite(i, reqs) ==
    \/ inviteRequest(i, reqs)
    \/ handleInviteRun(i)

----------------------------------------------------------------------------
(* The state after init() and before main() starts the poller's first cycle *)

InitRest ==
    /\ ourTeam = NoTeam
    /\ hitsPerMinute = 0
    /\ requests = 0
    /\ events = <<>>
    /\ pollPc = "GetUsers"
    /\ users = <<>>
    /\ usersErr = FALSE
    /\ uCount = 0
    /\ aCount = 0
    /\ st = NoTeam
    /\ infoErr = FALSE
    /\ sleepFor = 0
    /\ cycle = NoCycle
    /\ tornSince = FALSE
    /\ bPc = "idle"
    /\ b = NoLocals
    /\ badgeOut = <<>>
    /\ hPc = [p \in 1..NumHome |-> "idle"]
    /\ hRate = [p \in 1..NumHome |-> 0]
    /\ hAge = [p \in 1..NumHome |-> 0]
    /\ hReadAge = [p \in 1..NumHome |-> 0]
    /\ hAlone = [p \in 1..NumHome |-> TRUE]
    /\ homeOut = [p \in 1..NumHome |-> <<>>]
    /\ recorded = <<>>
    /\ m = [c \in Counters |-> 0]
    /\ iPc = [i \in 1..NumInvite |-> "idle"]
    /\ iv = [i \in 1..NumInvite |-> NoInvite]

\* the gauges are zero-valued expvar.Int
Init ==
    /\ userCount = 0
    /\ activeUserCount = 0
    /\ InitRest

\* the steps of the poller goroutine, of a badge request that has arrived and
\* of a homepage request that has arrived
pollerRun(lists) == updateFromSlack(lists) \/ pollSlack
badgeRun ==
    \/ badge158a
    \/ badge158u
    \/ badge162
    \/ badge163
    \/ badge168
    \/ badge215
    \/ badge216
    \/ badgeReturn
homepageRun(p) ==
    \/ homepage231(p)
    \/ homepage232r(p)
    \/ homepage232s(p)
    \/ homepage233(p)
    \/ homepage245(p)
    \/ homepageReturn(p)

NoHomepage == \A p \in 1..NumHome : hPc[p] = "idle"

\* main(): the poller beside the handlers, requests arriving one at a time
Next ==
    \/ pollerRun(ConcLists)
    \/ (NoHomepage /\ badgeRequest)
    \/ badgeRun
    \/ (bPc = "idle" /\ homepageRequest(1))
    \/ homepageRun(1)

Spec == Init /\ [][Next]_vars

\* the same with the scheduling the runtime gives: a goroutine that can take
\* a step takes it, every external call and time.Sleep return
SpecLive ==
    /\ Init
    /\ [][Next]_vars
    /\ WF_vars(pollerRun(ConcLists))
    /\ WF_vars(badgeRun)
    /\ WF_vars(homepageRun(1))

\* the poller alone
NextPoll ==
    \/ updateFromSlack(AllLists)
    \/ pollSlack

SpecPoll == Init /\ [][NextPoll]_vars

\* the poller beside one badge request
NextBadgePoll ==
    \/ updateFromSlack(ConcLists)
    \/ pollSlack
    \/ badge

SpecBadgePoll == Init /\ [][NextBadgePoll]_vars

\* badge requests while the gauges hold any pair of values and do not change
InitBadge ==
    /\ userCount \in 0..MaxCount
    /\ activeUserCount \in 0..MaxCount
    /\ InitRest

SpecBadge == InitBadge /\ [][badge]_vars

\* homepage requests, one at a time
NextHomeSeq ==
    \/ homepage(1)
    \/ Tick

SpecHomeSeq == Init /\ [][NextHomeSeq]_vars

\* concurrent homepage requests
NextHome ==
    \/ \E p \in 1..NumHome : homepage(p)
    \/ Tick

SpecHome == Init /\ [][NextHome]_vars

\* concurrent invite requests
NextInvite == \E i \in 1..NumInvite : handleInvite(i, InviteRequests)

SpecInvite == Init /\ [][NextInvite]_vars

\* concurrent homepage requests beside concurrent invite requests
NextCount ==
    \/ \E p \in 1..NumHome : homepage(p)
    \/ \E i \in 1..NumInvite : handleInvite(i, ConcRequests)

SpecCount == Init /\ [][NextCount]_vars

\* no invite request is being handled
NoInviteRunning == \A i \in 1..NumInvite : iPc[i] = "idle"

\* the requests that may arrive in the runs of the whole program
RequestsNow ==
    {req \in ConcRequests : req.Method = "POST" => Posted < MaxInvitesAll}

\* the poller beside the three handlers, the requests arriving one at a time
NextAll ==
    \/ pollerRun(ConcLists)
    \/ (NoHomepage /\ NoInviteRunning /\ badgeRequest)
    \/ badgeRun
    \/ (bPc = "idle" /\ NoInviteRunning /\ homepageRequest(1))
    \/ homepageRun(1)
    \/ (bPc = "idle" /\ NoHomepage /\ inviteRequest(1, RequestsNow))
    \/ handleInviteRun(1)

SpecAll == Init /\ [][NextAll]_vars

----------------------------------------------------------------------------
(* The claims about the refresh cycle *)

\* the members a refresh counts, and those of them that are active, counted
\* as sets of positions in the list
Eligible(us) ==
    {i \in 1..Len(us) : us[i].ID # "USLACKBOT" /\ us[i].IsBot = FALSE /\ us[i].Deleted = FALSE}
ActiveEligible(us) == {i \in Eligible(us) : us[i].Presence = "active"}

PollerSteps == pollPc' # pollPc

\* C1: a cycle whose 'list members' call fails leaves userCount,
\* activeUserCount and the team record as they were, does not call 'get team
\* info', and schedules the next cycle after exactly 1 minute.
C1_ListingFailed ==
    [][/\ (PollerSteps /\ (pollPc = "GetUsers" \/ (pollPc = "CheckUsers" /\ usersErr)))
           => /\ userCount' = userCount
              /\ activeUserCount' = activeUserCount
              /\ ourTeam' = ourTeam
       /\ (PollerSteps /\ pollPc = "CheckUsers" /\ usersErr)
           => /\ pollPc' = "Sleep"
              /\ sleepFor' = 1
              /\ ~cycle'.infoCalled
              /\ ~cycle'.listOk]_vars

\* a listing failed while the gauges and the team record held earlier results
C1_Witness ==
    /\ pollPc = "Sleep"
    /\ ~cycle.listOk
    /\ sleepFor = 1
    /\ userCount = 2
    /\ activeUserCount = 1
    /\ ourTeam \in TeamInfos

\* C2: the interval a cycle schedules is 1 minute or 10 minutes, and it is 10
\* minutes exactly when both calls of the cycle succeeded, in which case the
\* team record is the record 'get team info' returned.
C2_Interval ==
    [][(PollerSteps /\ pollPc' = "Sleep")
          => /\ sleepFor' \in {1, 10}
             /\ sleepFor' = 10 <=> (cycle.listOk /\ pollPc = "CheckTeamInfo" /\ ~infoErr)
             /\ (usersErr \/ infoErr) => sleepFor' = 1
             /\ sleepFor' = 10 => (ourTeam' = st /\ st \in TeamInfos)]_vars

\* a cycle scheduled 10 minutes after replacing an earlier team record
C2_Witness ==
    /\ pollPc = "Sleep"
    /\ sleepFor = 10
    /\ cycle.listOk
    /\ cycle.infoOk
    /\ ourTeam.Icon = "b.png"

\* C3: when 'list members' succeeds and 'get team info' fails, the team
\* record keeps its value, the interval is 1 minute and the gauges hold the
\* counts of this cycle's member list.
C3_TeamInfoFailed ==
    [][/\ (PollerSteps /\ pollPc = "CheckTeamInfo" /\ infoErr)
           => /\ pollPc' = "Sleep"
              /\ sleepFor' = 1
              /\ ourTeam' = ourTeam
              /\ userCount' = Cardinality(Eligible(users))
              /\ activeUserCount' = Cardinality(ActiveEligible(users))
       /\ (ourTeam' # ourTeam) => (pollPc = "CheckTeamInfo" /\ ~infoErr)]_vars

\* the team info call failed in a cycle that changed the gauges, with an
\* earlier team record in place
C3_Witness ==
    /\ pollPc = "Sleep"
    /\ cycle.listOk
    /\ cycle.infoCalled
    /\ ~cycle.infoOk
    /\ sleepFor = 1
    /\ ourTeam \in TeamInfos
    /\ userCount = 2
    /\ activeUserCount = 2

\* the member list of the example: 3 eligible members, 2 of them active, and a
\* deleted member
ExampleUsers ==
    <<[ID |-> "U1", IsBot |-> FALSE, Deleted |-> FALSE, Presence |-> "active"],
      [ID |-> "U1", IsBot |-> FALSE, Deleted |-> TRUE, Presence |-> "active"],
      [ID |-> "U1", IsBot |-> FALSE, Deleted |-> FALSE, Presence |-> "away"],
      [ID |-> "U1", IsBot |-> FALSE, Deleted |-> FALSE, Presence |-> "active"]>>

\* C4: after the gauge update userCount is the number of members that are
\* not USLACKBOT, not bots and not deleted, and activeUserCount the number of
\* those whose presence is "active"; the example list gives 3 and 2.
C4_Counts ==
    /\ pollPc \in {"GetTeamInfo", "CheckTeamInfo"}
          => /\ userCount = Cardinality(Eligible(users))
             /\ activeUserCount = Cardinality(ActiveEligible(users))
    /\ CountUsers(ExampleUsers) = [uCount |-> 3, aCount |-> 2]

\* the gauges were set from a list holding an eligible member and an active
\* deleted one
C4_Witness ==
    /\ pollPc = "GetTeamInfo"
    /\ Len(users) = 2
    /\ users[1].Deleted /\ users[1].Presence = "active" /\ users[1].ID = "U1" /\ ~users[1].IsBot
    /\ Counted(users[2]) /\ users[2].Presence = "away"
    /\ userCount = 1
    /\ activeUserCount = 0

\* C5: between cycles activeUserCount <= userCount.
C5_ActiveAtMostTotal ==
    pollPc \in {"Sleep", "GetUsers"} => activeUserCount <= userCount

\* the poller sleeps after a failed cycle that followed a successful one
C5_Witness ==
    /\ pollPc = "Sleep"
    /\ ~cycle.listOk
    /\ activeUserCount = 1
    /\ userCount = 2

----------------------------------------------------------------------------
(* The claims about the badge *)

BadgeRead == bPc \in {"L215", "L216", "done"}

\* C6 as stated: a request handler never observes a pair of gauge values
\* with activeUserCount > userCount.
C6_NeverTorn ==
    bPc \in {"L162", "L163", "L168", "L215", "L216", "done"} => b.a158 <= b.u158

\* C6, amended: the gauges are replaced by two separate writes; outside the
\* interval between the two writes the stored pair has activeUserCount <=
\* userCount, and a request that began outside that interval and met no gauge
\* write since its first read has read the stored pair at every read.
C6_TornOnlyAcrossWrites ==
    /\ pollPc # "SetActiveUserCount" => activeUserCount <= userCount
    /\ pollPc \in {"GetTeamInfo", "CheckTeamInfo"}
          => (userCount = uCount /\ activeUserCount = aCount)
    /\ (bPc \in {"L162", "L163", "L168", "L215", "L216", "done"} /\ ~tornSince)
          => /\ b.a158 = activeUserCount
             /\ b.u158 = userCount
             /\ b.a158 <= b.u158
    /\ (BadgeRead /\ ~tornSince)
          => /\ b.u162 = b.u158
             /\ b.a168 = b.a158
             /\ HasUsers(b.u162) => b.u163 = b.u158

\* a badge request read the pair (1,1) undisturbed while a refresh cycle was
\* running
C6_Witness ==
    /\ bPc = "done"
    /\ ~tornSince
    /\ b.a158 = 1
    /\ b.u158 = 1
    /\ pollPc = "CheckUsers"

DigitValue == [c \in {"0", "1", "2", "3", "4", "5", "6", "7", "8", "9"} |->
                 CASE c = "0" -> 0 [] c = "1" -> 1 [] c = "2" -> 2 [] c = "3" -> 3
                   [] c = "4" -> 4 [] c = "5" -> 5 [] c = "6" -> 6 [] c = "7" -> 7
                   [] c = "8" -> 8 [] c = "9" -> 9]

\* the number a string of decimal digits denotes, -1 if it is none or has a
\* leading zero
RECURSIVE DecimalValue(_)
DecimalValue(text) ==
    IF text = <<>> \/ \E i \in 1..Len(text) : text[i] \notin DOMAIN DigitValue THEN 0 - 1
    ELSE IF Len(text) = 1 THEN DigitValue[text[1]]
    ELSE IF text[1] = "0" THEN 0 - 1
    ELSE 10 * DecimalValue(SubSeq(text, 1, Len(text) - 1)) + DigitValue[text[Len(text)]]

SlashAt(text) == {i \in 1..Len(text) : text[i] = "/"}

\* C7: with gauges that do not change during the request, the right-hand
\* label is "-" when both are 0, the decimal userCount when activeUserCount =
\* 0 < userCount, and "<activeUserCount>/<userCount>" otherwise.
C7_RightText ==
    BadgeRead =>
       /\ (activeUserCount = 0 /\ userCount = 0) => b.rightText = <<"-">>
       /\ (activeUserCount = 0 /\ userCount > 0) => DecimalValue(b.rightText) = userCount
       /\ activeUserCount # 0 =>
             \E i \in SlashAt(b.rightText) :
                /\ SlashAt(b.rightText) = {i}
                /\ DecimalValue(SubSeq(b.rightText, 1, i - 1)) = activeUserCount
                /\ DecimalValue(SubSeq(b.rightText, i + 1, Len(b.rightText))) = userCount
       /\ (userCount = 42 /\ activeUserCount = 0) => b.rightText = <<"4", "2">>
       /\ (userCount = 100 /\ activeUserCount = 7) => b.rightText = <<"7", "/", "1", "0", "0">>
       /\ (bPc = "done" /\ badgeOut.status = 200) => badgeOut.RightText = b.rightText

\* the badge of 7 active users out of 100 was rendered
C7_Witness ==
    /\ bPc = "done"
    /\ userCount = 100
    /\ activeUserCount = 7
    /\ badgeOut.status = 200
    /\ badgeOut.RightText = <<"7", "/", "1", "0", "0">>

\* C8: the left width is 8 + 7*5 + 4 = 47, the right width 12 + 7 *
\* len(rightText), the total width their sum, so that no shorter label gives
\* a wider badge.
C8_Widths ==
    BadgeRead =>
       /\ b.leftWidth = 8 + 7 * Len(leftText) + 4
       /\ b.leftWidth = 47
       /\ b.rightWidth = 12 + 7 * Len(b.rightText)
       /\ b.totalWidth = b.leftWidth + b.rightWidth
       /\ \A k \in 0..Len(b.rightText) :
             TotalWidth(SubSeq(b.rightText, 1, k)) <= b.totalWidth
       /\ (bPc = "done" /\ badgeOut.status = 200)
             => /\ DecimalValue(badgeOut.TotalWidth) = b.totalWidth
                /\ DecimalValue(badgeOut.LeftWidth) = b.leftWidth
                /\ DecimalValue(badgeOut.RightWidth) = b.rightWidth

\* the badge with the 7-character label "100/100" was rendered, 108 wide
C8_Witness ==
    /\ bPc = "done"
    /\ badgeOut.status = 200
    /\ Len(b.rightText) = 7
    /\ b.totalWidth = 108
    /\ badgeOut.TotalWidth = <<"1", "0", "8">>

----------------------------------------------------------------------------
(* The claims about the loop *)

\* C9: the refresh loop never stops: every cycle ends and is followed by
\* another one, whatever the calls return; a failed listing leaves the gauges
\* as they were; and a request that has arrived can always take its next
\* step, wherever the poller is, and is answered.
C9_LoopForever ==
    /\ []<>(pollPc = "GetUsers")
    /\ []<>(pollPc = "Sleep")
    /\ [](pollPc \in {"GetUsers", "CheckUsers", "SetUserCount", "SetActiveUserCount",
                      "GetTeamInfo", "CheckTeamInfo", "Sleep"})
    /\ [](ENABLED pollerRun(ConcLists))
    /\ [][(pollPc = "CheckUsers" /\ usersErr) => UNCHANGED <<userCount, activeUserCount>>]_vars
    /\ [](bPc # "idle" => ENABLED badgeRun)
    /\ [](hPc[1] # "idle" => ENABLED homepageRun(1))
    /\ (bPc = "L158a") ~> (bPc = "done")
    /\ (hPc[1] = "L231") ~> (hPc[1] = "done")

\* a badge request was answered with the last known counts while the listing
\* was failing
C9_Witness ==
    /\ pollPc = "CheckUsers"
    /\ usersErr
    /\ sleepFor = 1
    /\ ~cycle.listOk
    /\ userCount = 1
    /\ bPc = "done"
    /\ badgeOut.status = 200
    /\ badgeOut.UserCount = <<"1">>

----------------------------------------------------------------------------
(* The claims about the homepage *)

\* the order in which a homepage request takes its steps
HomepageOrder ==
    {<<"idle", "L231">>, <<"L231", "L232r">>, <<"L232r", "L232s">>, <<"L232s", "L233">>,
     <<"L233", "L245">>, <<"L245", "done">>, <<"done", "idle">>}

Moves(p, from, to) == hPc[p] = from /\ hPc'[p] = to

\* C10: a homepage render takes its steps once each and in order: it records
\* one event, reads the rate after that, sets hitsPerMinute to the rate it
\* read and adds 1 to requests; nothing else changes these. With no other
\* request in flight hitsPerMinute is then the rate of the window as of the
\* read, and at least 1 while the request's own event is within the window.
C10_HomepageHit ==
    [][\A p \in 1..NumHome :
         /\ hPc'[p] # hPc[p] => <<hPc[p], hPc'[p]>> \in HomepageOrder
         /\ Moves(p, "L231", "L232r") => events' = events \o <<0>>
         /\ Moves(p, "L232r", "L232s") => hRate'[p] = Rate(events)
         /\ Moves(p, "L232s", "L233") => hitsPerMinute' = hRate[p]
         /\ Moves(p, "L233", "L245") => requests' = requests + 1
         /\ requests' # requests => \E q \in 1..NumHome : Moves(q, "L233", "L245")
         /\ hitsPerMinute' # hitsPerMinute => \E q \in 1..NumHome : Moves(q, "L232s", "L233")
         /\ Len(events') > Len(events) => \E q \in 1..NumHome : Moves(q, "L231", "L232r")
         /\ (hPc'[p] \in {"L233", "L245", "done"} /\ hAlone'[p])
               => /\ hitsPerMinute' = hRate'[p]
                  /\ hAge'[p] < Window => hitsPerMinute' >= 1
                  /\ hReadAge'[p] = 0 => hitsPerMinute' = Rate(events')
                  /\ hReadAge'[p] = 0 => hitsPerMinute' = Len(events')]_vars

\* the third render within one window, alone, left the gauge at 3
C10_Witness ==
    /\ hPc[1] = "done"
    /\ hAlone[1]
    /\ hReadAge[1] = 0
    /\ requests = 3
    /\ hitsPerMinute = 3
    /\ Len(events) = 3

----------------------------------------------------------------------------
\* the renders that have recorded their event and not yet added to requests
Pending == {p \in 1..NumHome : hPc[p] \in {"L232r", "L232s", "L233"}}

\* C11: the accumulators never decrease and lose no increment, however the
\* handlers interleave: every step changes each accumulator by exactly the
\* number of Add(1) calls executed in it, and requests is the number of
\* renders that have executed line 233
C11_Counters ==
    /\ [](requests = Len(recorded) - Cardinality(Pending))
    /\ [][/\ requests' >= requests
          /\ requests' - requests
                = Cardinality({p \in 1..NumHome : Moves(p, "L233", "L245")})
          /\ \A c \in Counters :
                /\ m'[c] >= m[c]
                /\ m'[c] - m[c]
                      = Cardinality({i \in 1..NumInvite :
                                       iv'[i].added = Append(iv[i].added, c)})]_vars

\* two renders and two invite requests have run concurrently to their end and
\* both pairs added to the same accumulator
C11_Witness ==
    /\ \A p \in 1..NumHome : hPc[p] = "done"
    /\ \A i \in 1..NumInvite : iPc[i] = "done" /\ iv[i].added = <<"successfulCaptcha", "missingCoC">>
    /\ requests = 2
    /\ m["successfulCaptcha"] = 2
    /\ m["missingCoC"] = 2

----------------------------------------------------------------------------
\* the events recorded less than one window ago
Recent == {i \in DOMAIN recorded : recorded[i] < Window}

\* C12: the rate of the one-minute window is exactly the number of events
\* recorded within the trailing window, at every moment and at every read of
\* line 232, and it is 0 once every recorded event is a full window old
C12_RateWindow ==
    /\ [](Rate(events) = Cardinality(Recent))
    /\ [](Recent = {} => Rate(events) = 0)
    /\ [][\A p \in 1..NumHome :
            Moves(p, "L232r", "L232s") => hRate'[p] = Cardinality(Recent)]_vars

\* three events were recorded, the first a full window ago, and a render has
\* just read a rate of 2
C12_Witness ==
    /\ Len(recorded) = 3
    /\ recorded[1] = Window
    /\ Recent = {2, 3}
    /\ \E p \in 1..NumHome : hPc[p] = "L232s" /\ hReadAge[p] = 0 /\ hRate[p] = 2

----------------------------------------------------------------------------
\* C13: only the poller writes userCount, activeUserCount and ourTeam; a step
\* of the badge handler changes no gauge and no accumulator; a step of the
\* homepage handler changes nothing but requests, the rate window and
\* hitsPerMinute; a step of the invite handler changes nothing but its own
\* accumulators
C13_Frame ==
    [][/\ pollPc' = pollPc => UNCHANGED <<userCount, activeUserCount, ourTeam>>
       /\ bPc' # bPc => UNCHANGED <<userCount, activeUserCount, ourTeam,
                                    hitsPerMinute, requests, events, m>>
       /\ hPc' # hPc => UNCHANGED <<userCount, activeUserCount, ourTeam, m>>
       /\ iPc' # iPc => UNCHANGED <<userCount, activeUserCount, ourTeam,
                                    hitsPerMinute, requests, events>>]_vars

\* a badge has been rendered after the poller stored a team of one member, a
\* homepage render counted its hit and an invite request sent its invitation
C13_Witness ==
    /\ bPc = "done"
    /\ badgeOut # <<>>
    /\ userCount = 1
    /\ ourTeam # NoTeam
    /\ requests = 1
    /\ hitsPerMinute = 1
    /\ m["successfulInvites"] = 1

----------------------------------------------------------------------------
\* the label is the bare text "0"
BareZero(text) == text = <<"0">>

\* the label has the form "0/<n>"
ZeroOf(text) == Len(text) >= 2 /\ text[1] = "0" /\ text[2] = "/"

\* C14: whatever gauge writes interleave with the reads of a badge request,
\* the label it renders is never the bare text "0" and never of the form
\* "0/<n>"
C14_LabelAllowed ==
    BadgeRead => ~BareZero(b.rightText) /\ ~ZeroOf(b.rightText)

----------------------------------------------------------------------------
\* every homepage handler has completed a request and every event was
\* recorded within the trailing window
AllCompleted ==
    /\ \A p \in 1..NumHome : hPc[p] = "done"
    /\ Recent = DOMAIN recorded

\* C15: when concurrent homepage requests have all completed within one
\* window, hitsPerMinute is the current rate of the window
C15_GaugeIsRate ==
    AllCompleted => hitsPerMinute = Rate(events)

\* C15, amended: when concurrent homepage requests have all completed within
\* one window, hitsPerMinute is the rate one of them read at line 232, at least
\* 1 and at most the current rate, and it is the current rate if every one of
\* them read the current rate
C15_GaugeIsSomeRate ==
    AllCompleted =>
       /\ \E p \in 1..NumHome : hitsPerMinute = hRate[p]
       /\ 1 <= hitsPerMinute
       /\ hitsPerMinute <= Rate(events)
       /\ (\A p \in 1..NumHome : hRate[p] = Rate(events)) => hitsPerMinute = Rate(events)

\* two requests have completed within one window and the one that read the
\* rate first wrote the gauge last
C15_Witness ==
    /\ AllCompleted
    /\ ~hAlone[1] /\ ~hAlone[2]
    /\ Rate(events) = 2
    /\ hRate[1] = 1
    /\ hRate[2] = 2
    /\ hitsPerMinute = 1

----------------------------------------------------------------------------
\* the accumulators of the outcome of the verification and of what follows it
CaptchaCounters == {"failedCaptcha", "invalidCaptcha", "successfulCaptcha"}
AfterCaptchaCounters == {"missingEmail", "missingFirstName", "missingLastName",
                         "missingCoC", "inviteErrors", "successfulInvites"}

\* the sum of the six accumulators that follow a successful verification
AfterCaptcha ==
    m["missingEmail"] + m["missingFirstName"] + m["missingLastName"]
      + m["missingCoC"] + m["inviteErrors"] + m["successfulInvites"]

\* the requests that have added to successfulCaptcha and to nothing after it
AfterCaptchaPending == {i \in 1..NumInvite : iPc[i] \in {"L291", "L311", "L312"}}

\* C16: a request that is not a POST adds to no accumulator; a POST adds to
\* exactly one of failedCaptcha, invalidCaptcha, successfulCaptcha, and if that
\* is successfulCaptcha then to exactly one of the six that follow; hence
\* successfulCaptcha is the sum of the six whenever no request is in flight
C16_Accounting ==
    /\ [](\A i \in 1..NumInvite :
            /\ Len(iv[i].added) <= 2
            /\ Len(iv[i].added) >= 1 => iv[i].added[1] \in CaptchaCounters
            /\ Len(iv[i].added) = 2 => /\ iv[i].added[1] = "successfulCaptcha"
                                       /\ iv[i].added[2] \in AfterCaptchaCounters
            /\ iPc[i] = "done" =>
                  IF iv[i].req.Method # "POST" THEN iv[i].added = <<>>
                  ELSE IF iv[i].added[1] = "successfulCaptcha" THEN Len(iv[i].added) = 2
                  ELSE Len(iv[i].added) = 1)
    /\ [](m["successfulCaptcha"] = AfterCaptcha + Cardinality(AfterCaptchaPending))
    /\ []((\A i \in 1..NumInvite : iPc[i] \in {"idle", "done"})
            => m["successfulCaptcha"] = AfterCaptcha)
    /\ [][\A i \in 1..NumInvite :
            /\ (iPc'[i] # iPc[i] /\ iPc[i] # "idle" /\ iv[i].req.Method # "POST") => m' = m
            /\ \A c \in Counters :
                  m'[c] # m[c] => \E j \in 1..NumInvite :
                                     iv'[j].added = Append(iv[j].added, c)]_vars

\* two POST requests have been handled to their end, one without a last name
\* and one whose invitation was sent
C16_Witness ==
    /\ iPc[1] = "done" /\ iv[1].added = <<"successfulCaptcha", "missingLastName">>
    /\ iPc[2] = "done" /\ iv[2].added = <<"successfulCaptcha", "successfulInvites">>
    /\ m["successfulCaptcha"] = 2
    /\ AfterCaptcha = 2

----------------------------------------------------------------------------
\* the handler has called, or is about to call, api.InviteToTeam
Inviting(i) == iPc[i] = "L311" \/ iv[i].calls = <<"Verify", "InviteToTeam">>

\* C17: api.InviteToTeam is called at most once per request, after
\* captcha.Verify, and only for a POST whose verification returned valid
\* without error and whose email, first name and last name are not empty and
\* whose coc is "1"; successfulInvites is added to only after the call
\* returned no error; and of several missing fields only the first in the
\* order email, first name, last name, code of conduct is counted
C17_InviteGuard ==
    \A i \in 1..NumInvite :
       LET r == iv[i].req
           a == iv[i].added
       IN  /\ iv[i].calls \in {<<>>, <<"Verify">>, <<"Verify", "InviteToTeam">>}
           /\ Inviting(i) =>
                 /\ r.Method = "POST"
                 /\ iv[i].valid /\ ~iv[i].verifyErr
                 /\ r.email # "" /\ r.fname # "" /\ r.lname # "" /\ r.coc = "1"
                 /\ a[1] = "successfulCaptcha"
           /\ (Len(a) = 2 /\ a[2] = "successfulInvites") =>
                 iv[i].calls = <<"Verify", "InviteToTeam">> /\ ~iv[i].inviteErr
           /\ (Len(a) = 2 /\ a[2] = "inviteErrors") =>
                 iv[i].calls = <<"Verify", "InviteToTeam">> /\ iv[i].inviteErr
           /\ (iPc[i] = "done" /\ Len(a) >= 1 /\ a[1] = "successfulCaptcha") =>
                 /\ r.email = "" => a = <<"successfulCaptcha", "missingEmail">>
                 /\ (r.email # "" /\ r.fname = "")
                       => a = <<"successfulCaptcha", "missingFirstName">>
                 /\ (r.email # "" /\ r.fname # "" /\ r.lname = "")
                       => a = <<"successfulCaptcha", "missingLastName">>
                 /\ (r.email # "" /\ r.fname # "" /\ r.lname # "" /\ r.coc # "1")
                       => a = <<"successfulCaptcha", "missingCoC">>
                 /\ (r.email = "" \/ r.fname = "" \/ r.lname = "" \/ r.coc # "1")
                       => iv[i].calls = <<"Verify">>

\* one request, with every field empty, was counted as a missing email and
\* made no call; another, complete, was invited
C17_Witness ==
    /\ iPc[1] = "done"
    /\ iv[1].req.email = "" /\ iv[1].req.fname = "" /\ iv[1].req.lname = ""
    /\ iv[1].req.coc = ""
    /\ iv[1].added = <<"successfulCaptcha", "missingEmail">>
    /\ iv[1].calls = <<"Verify">>
    /\ iPc[2] = "done"
    /\ iv[2].calls = <<"Verify", "InviteToTeam">>
    /\ iv[2].added = <<"successfulCaptcha", "successfulInvites">>
    /\ iv[2].status = 200

----------------------------------------------------------------------------
\* C18: until a cycle's GetUsers call has succeeded, however many cycles
\* have failed, both gauges are 0 and a badge is rendered with the label "-"
C18_BeforeFirstListing ==
    ~cycle.ever =>
       /\ userCount = 0
       /\ activeUserCount = 0
       /\ BadgeRead => b.rightText = <<"-">>
       /\ (bPc = "done" /\ badgeOut.status = 200) => badgeOut.RightText = <<"-">>

\* a badge was rendered while the poller slept after a failed listing, no
\* listing having succeeded yet
C18_Witness ==
    /\ ~cycle.ever
    /\ pollPc = "Sleep"
    /\ sleepFor = Minute
    /\ bPc = "done"
    /\ badgeOut.status = 200
    /\ badgeOut.RightText = <<"-">>

----------------------------------------------------------------------------
\* C19: the left anchor is the floor of half the left width and the right
\* anchor the left width plus the floor of half the right width, so that
\* 0 <= left anchor <= left width <= right anchor <= total width; the
\* baselines of the texts are 14 and, for the shadow, 15
C19_Anchors ==
    BadgeRead =>
       /\ 2 * b.leftTextWidth <= b.leftWidth
       /\ b.leftWidth < 2 * b.leftTextWidth + 2
       /\ b.leftTextWidth = 23
       /\ 2 * (b.rightTextWidth - b.leftWidth) <= b.rightWidth
       /\ b.rightWidth < 2 * (b.rightTextWidth - b.leftWidth) + 2
       /\ 0 <= b.leftTextWidth
       /\ b.leftTextWidth <= b.leftWidth
       /\ b.leftWidth <= b.rightTextWidth
       /\ b.rightTextWidth <= b.totalWidth
       /\ (bPc = "done" /\ badgeOut.status = 200)
             => /\ DecimalValue(badgeOut.LeftTextWidth) = b.leftTextWidth
                /\ DecimalValue(badgeOut.RightTextWidth) = b.rightTextWidth
                /\ badgeOut.LeftTextHeight = <<"1", "4">>
                /\ badgeOut.RightTextHeight = <<"1", "4">>
                /\ badgeOut.LeftTextHeightPlusOne = <<"1", "5">>
                /\ badgeOut.RightTextHeightPlusOne = <<"1", "5">>

\* the badge with the label "100/100" was rendered: the right width 61 is
\* odd and the right anchor is 47 + 30
C19_Witness ==
    /\ bPc = "done"
    /\ badgeOut.status = 200
    /\ b.rightText = <<"1", "0", "0", "/", "1", "0", "0">>
    /\ b.rightWidth = 61
    /\ b.rightTextWidth = 77
    /\ badgeOut.LeftTextWidth = <<"2", "3">>
    /\ badgeOut.RightTextWidth = <<"7", "7">>

============================================================================
